---- MODULE Spec2Model ----
(***************************************************************************)
(* Model of the Blender-manual assistant backend (src/app.py): the two     *)
(* Flask handlers /preguntar and /generar-script, the JWT check, the       *)
(* planner, the Neo4j retriever, the answer composer, the script composer  *)
(* and the Supabase conversation log.                                      *)
(*                                                                         *)
(* External services (Gemini, Neo4j, Supabase, PyJWT) are environment      *)
(* choices: every outcome the call can produce is drawn with \E.           *)
(* Similarity scores are integers in tenths, so the boost 0.1 is 1.        *)
(* Texts that the code inspects or that a claim reads are sequences of     *)
(* fragments; a Python substring test is a test for a fragment.            *)
(***************************************************************************)
EXTENDS Integers, Sequences, FiniteSets, TLC

\* ------------------------------------------------------------------ bounds

\* raw similarity scores of the vector index are 1..MaxScore (tenths)
MaxScore == 2
\* most search queries in a plan returned by the planner
MaxConsultas == 2

\* --------------------------------------------------------------- constants

\* "score + 0.1", in tenths
BOOST == 1
\* queryNodes('chunk_vector_index', 3, vector)
TopK == 3
\* ORDER BY score DESC LIMIT 3
LIMITE == 3

\* ------------------------------------------------------------- JSON values

JNull == [t |-> "null"]
JStr(s) == [t |-> "str", s |-> s]
JList(l) == [t |-> "list", l |-> l]
JObj(o) == [t |-> "obj", o |-> o]
JNum(n) == [t |-> "num", n |-> n]

\* Python None outside JSON
None == "None"

\* dict.get(k, d): raises AttributeError on a value that is no dict, which
\* the callers test with EsDict first
EsDict(v) == v.t = "obj"
DictGet(d, k, def) == IF k \in DOMAIN d.o THEN d.o[k] ELSE def

\* `frag in texto` for a text kept as a sequence of fragments
Contiene(texto, frag) == \E i \in 1..Len(texto) : texto[i] = frag

\* ------------------------------------------------- the knowledge graph

\* Chunks of the manual, each :PERTENECE_A one Capitulo, each Capitulo
\* :PERTENECE_A one Parte. The texts are pairwise different.
Nodos == {"n1", "n2", "n3"}
Texto == [n1 |-> "texto1", n2 |-> "texto2", n3 |-> "texto3"]
Pagina == [n1 |-> "10", n2 |-> "11", n3 |-> "20"]
CapituloDe == [n1 |-> "cap1", n2 |-> "cap1", n3 |-> "cap2"]
ParteDe == [cap1 |-> "parte1", cap2 |-> "parte2"]
Capitulos == {CapituloDe[n] : n \in Nodos}

\* Non-increasing sequences of raw scores, one entry per query vector that
\* matched the chunk
NoCrecientes(len) ==
    UNION {{q \in [1..k -> 1..MaxScore] : \A i \in 1..(k - 1) : q[i] >= q[i + 1]} :
              k \in 0..len}

\* What the vector index yields for nvec query vectors: for every chunk the
\* raw scores with which the vectors matched it (the rows of the query do not
\* record which vector produced them). Each vector yields a chunk at most
\* once and at most TopK chunks.
Coincidencias(nvec) ==
    {c \in [Nodos -> NoCrecientes(nvec)] :
        LET total == Len(c["n1"]) + Len(c["n2"]) + Len(c["n3"])
        IN  total <= nvec * TopK}

\* The order in which the database returns rows of equal score is not
\* specified by ORDER BY: any priority among the chunks (1 comes first)
Desempates == {d \in [Nodos -> 1..Cardinality(Nodos)] :
                  \A n, m \in Nodos : d[n] = d[m] => n = m}

\* --------------------------------------------------- PASO 1.2 Investigador

\* boosted_score with the test of the chapter inverted
boosted_score_invertido(score, titulo, capitulo_enfocado) ==
    IF capitulo_enfocado = JNull THEN score
    ELSE IF capitulo_enfocado # JStr(titulo) THEN score + BOOST
    ELSE score

\* CASE WHEN $capitulo_enfocado IS NULL THEN score
\*      WHEN c.titulo = $capitulo_enfocado THEN score + 0.1 ELSE score END
boosted_score(score, titulo, capitulo_enfocado) ==
    IF capitulo_enfocado = JNull THEN score
    ELSE IF capitulo_enfocado = JStr(titulo) THEN score + BOOST
    ELSE score

\* UNWIND $vectors ... CALL queryNodes ... MATCH (item)-->(c)-->(p): one row
\* per match
Filas(coincidencias) ==
    UNION {{[nodo |-> n, i |-> i, score |-> coincidencias[n][i]] :
               i \in 1..Len(coincidencias[n])} : n \in Nodos}

\* WITH item, c, p, CASE ... END AS boosted_score: every row with its
\* effective score
ConBoost(filas, capitulo_enfocado) ==
    {[nodo |-> f.nodo, i |-> f.i,
      score |-> boosted_score(f.score, CapituloDe[f.nodo], capitulo_enfocado)] :
        f \in filas}

\* ORDER BY score DESC, ties in the database's own order
Antes(f, g, desempate) ==
    \/ f.score > g.score
    \/ /\ f.score = g.score
       /\ \/ desempate[f.nodo] < desempate[g.nodo]
          \/ f.nodo = g.nodo /\ f.i < g.i

\* ORDER BY score DESC LIMIT n: the first n rows of the sorted rows
RECURSIVE OrderByLimit(_, _, _)
OrderByLimit(filas, desempate, n) ==
    IF n = 0 \/ filas = {} THEN <<>>
    ELSE LET primera == CHOOSE f \in filas :
                            \A g \in filas : g = f \/ Antes(f, g, desempate)
         IN  <<primera>> \o OrderByLimit(filas \ {primera}, desempate, n - 1)

\* RETURN 'Texto' AS tipo, item.texto AS contenido, item.pagina AS pagina,
\*        c.titulo AS capitulo, p.titulo AS parte, boosted_score AS score
Registro(fila) ==
    [tipo |-> "Texto", contenido |-> Texto[fila.nodo], pagina |-> Pagina[fila.nodo],
     capitulo |-> CapituloDe[fila.nodo], parte |-> ParteDe[CapituloDe[fila.nodo]],
     score |-> fila.score]

\* the whole Cypher query: contexto_encontrado
cypher_query(coincidencias, capitulo_enfocado, desempate) ==
    LET orden == OrderByLimit(ConBoost(Filas(coincidencias), capitulo_enfocado),
                              desempate, LIMITE)
    IN  [k \in 1..Len(orden) |-> Registro(orden[k])]

\* for item in contexto_encontrado: keep it when its contenido was not seen
RECURSIVE Limpiar(_, _, _)
Limpiar(contexto_encontrado, k, ids_vistos) ==
    IF k > Len(contexto_encontrado) THEN <<>>
    ELSE LET item == contexto_encontrado[k]
         IN  IF item.contenido \notin ids_vistos
             THEN <<item>> \o Limpiar(contexto_encontrado, k + 1,
                                      ids_vistos \cup {item.contenido})
             ELSE Limpiar(contexto_encontrado, k + 1, ids_vistos)

contexto_limpio(contexto_encontrado) == Limpiar(contexto_encontrado, 1, {})

\* plan.get('consultas_busqueda', []) and plan.get('capitulo_enfocado')
consultas_de(plan) == DictGet(plan, "consultas_busqueda", JList(<<>>))
capitulo_enfocado_de(plan) == DictGet(plan, "capitulo_enfocado", JNull)

\* plan.get on a value that is no dict raises AttributeError; the for loop
\* over a value that is no list raises TypeError
PlanRompeInvestigador(plan) ==
    \/ ~EsDict(plan)
    \/ consultas_de(plan).t # "list"

\* buscar_en_grafo on a plan it can read: emb_ok are the positions of the
\* queries whose embedding succeeded, contexto_encontrado the records of
\* session.run(cypher_query, params)
buscar_en_grafo(plan, emb_ok, contexto_encontrado) ==
    IF emb_ok = {} THEN <<>>
    ELSE contexto_limpio(contexto_encontrado)

\* ------------------------------------------------------------ the state

VARIABLES
    pc,              \* where the request in flight stands
    peticion,        \* the HTTP request: ruta, Authorization header, body
    user_id,         \* get_auth_user_id: the token's sub
    auth_error,      \* get_auth_user_id: the reason of the refusal, or None
    pregunta,        \* data['pregunta'] (prompt_usuario in /generar-script)
    session_id,      \* data['session_id']
    driver,          \* the Neo4j driver of the request: None, "open", "closed"
    plan,            \* what get_plan_de_busqueda returned
    busqueda,        \* what the embedding API and the vector index answered
    contexto_items,  \* what buscar_en_grafo returned
    respuesta_dict,  \* the Answer of /preguntar
    script_dict,     \* what generar_script_blender returned
    script_code,     \* script_dict.get("script", ...)
    asset_id,        \* ID(a) of the Asset node created by the request
    excepcion,       \* the exception caught by the handler's except clause
    respuesta,       \* the HTTP response: status and JSON body
    efectos,         \* external calls made by the request in flight
    supabase,        \* the module's Supabase client, None when not configured
    salidas,         \* how each call to the generative model ended
    maestro          \* the background loop of gemini_maestro.py

\* the state of app.py
vars_app == <<pc, peticion, user_id, auth_error, pregunta, session_id, driver,
              plan, busqueda, contexto_items, respuesta_dict, script_dict,
              script_code, asset_id, excepcion, respuesta, efectos, supabase,
              salidas>>

vars == <<vars_app, maestro>>

SinPeticion == [ruta |-> None, cabecera |-> <<>>, cuerpo |-> JNull]
SinRespuesta == [status |-> 0, body |-> JNull]
SinBusqueda == [emb_ok |-> {}, coincidencias |-> [n \in Nodos |-> <<>>],
                desempate |-> [n \in Nodos |-> 0]]
SinSalidas == [planificador |-> None, redactor |-> None, generador |-> None]
SinEfectos == [neo4j |-> 0, llm |-> 0, redactor |-> 0, logs |-> 0, assets |-> 0,
               insert |-> None]

Mas(e, campo) == [e EXCEPT ![campo] = @ + 1]

\* ----------------------------------------------------------- HTTP requests

Rutas == {"/preguntar", "/generar-script"}

\* The Authorization header after split(' '): <<>> when the header is absent,
\* <<"">> for the empty string
Cabeceras ==
    {<<>>, <<"">>, <<"Bearer">>} \cup
    {<<"Bearer", tk>> : tk \in {"caducado", "firma_mala", "basura",
                                "otra_audiencia", "valido", "valido_sin_sub"}}

\* request.json: NoJson is a body Flask cannot parse (request.json raises)
NoJson == [t |-> "no_json"]
Cuerpos ==
    {NoJson, JNull, JObj(<<>>),
     JObj([session_id |-> "s1"]),
     JObj([pregunta |-> "q"]),
     JObj([pregunta |-> "", session_id |-> "s1"]),
     JObj([pregunta |-> "q", session_id |-> "s1"])}

\* ---------------------------------------------------- get_auth_user_id

\* jwt.decode(token, SUPABASE_SERVICE_KEY, algorithms, audience)
jwt_decode(token) ==
    CASE token = "valido"         -> [exc |-> None, sub |-> "u1"]
      [] token = "valido_sin_sub" -> [exc |-> None, sub |-> None]
      [] token = "caducado"       -> [exc |-> "ExpiredSignatureError", sub |-> None]
      [] token = "firma_mala"     -> [exc |-> "InvalidSignatureError", sub |-> None]
      [] token = "otra_audiencia" -> [exc |-> "InvalidAudienceError", sub |-> None]
      [] OTHER                    -> [exc |-> "DecodeError", sub |-> None]

\* get_auth_user_id without the except IndexError clause's return
get_auth_user_id_sin_formato(auth_header) ==
    IF auth_header = <<>> \/ auth_header = <<"">>
    THEN <<None, "Authorization token is missing">>
    ELSE IF Len(auth_header) < 2
    THEN <<None, None>>
    ELSE LET decoded_token == jwt_decode(auth_header[2])
         IN  CASE decoded_token.exc = None -> <<decoded_token.sub, None>>
               [] decoded_token.exc = "ExpiredSignatureError" ->
                      <<None, "Token has expired">>
               [] decoded_token.exc = "InvalidSignatureError" ->
                      <<None, "Invalid token signature">>
               [] OTHER -> <<None, "Token validation failed">>

\* returns <<user_id, auth_error>>
get_auth_user_id(auth_header) ==
    IF auth_header = <<>> \/ auth_header = <<"">>
    THEN <<None, "Authorization token is missing">>
    ELSE IF Len(auth_header) < 2
    THEN <<None, "Invalid Authorization header format">>
    ELSE LET decoded_token == jwt_decode(auth_header[2])
         IN  CASE decoded_token.exc = None -> <<decoded_token.sub, None>>
               [] decoded_token.exc = "ExpiredSignatureError" ->
                      <<None, "Token has expired">>
               [] decoded_token.exc = "InvalidSignatureError" ->
                      <<None, "Invalid token signature">>
               [] OTHER -> <<None, "Token validation failed">>

\* jsonify({"error": f"Acceso denegado: {auth_error}"}), 401
Respuesta401(error) ==
    [status |-> 401,
     body |-> JObj([error |-> JStr(<<"Acceso denegado: ", error>>)])]

\* jsonify({"error": "Faltan datos requeridos (pregunta, session_id)"}), 400
Respuesta400 ==
    [status |-> 400,
     body |-> JObj([error |-> JStr(<<"Faltan datos requeridos (pregunta, session_id)">>)])]

\* not data or 'pregunta' not in data or 'session_id' not in data
FaltanDatos(data) ==
    \/ data = JNull
    \/ DOMAIN data.o = {}
    \/ "pregunta" \notin DOMAIN data.o
    \/ "session_id" \notin DOMAIN data.o

\* ------------------------------------------------------ gemini_maestro.py

\* Time is counted in tens of seconds.
\* CICLO_ANALISIS = 70
CICLO_ANALISIS == 7
\* time.sleep(60) of the except clause of the loop
ESPERA_REINTENTO == 6
\* the window after a user request in which the loop is to stay idle (60 s)
COOLDOWN == 6

\* tablas_memoria
TablasMemoria == {"memoria_blender_scripting", "memoria_blender_commands"}

\* The loop when ciclo_vida_maestro is entered: at the top of `while True`,
\* nothing read, no user request seen for a cooldown or more.
\*   pc          where the loop stands
\*   metricas    the tables that obtener_metricas_memoria could read
\*   prompts     the rows that obtener_tendencias_usuarios returned
\*   espera      what is left of the time.sleep in course
\*   desde       time since the last user request, COOLDOWN for "or more"
\*   fallo       what raised in the cycle in course, None when nothing did
\*   escrituras  inserts in informes_pilares done by the cycle in course
\*   en_cooldown whether the cycle in course began within the cooldown
MaestroAlArrancar ==
    [pc |-> "scan", metricas |-> {}, prompts |-> <<>>, espera |-> 0,
     desde |-> COOLDOWN, fallo |-> None, escrituras |-> 0,
     en_cooldown |-> FALSE]

\* ----------------------------------------------------------------- actions

Init ==
    /\ pc = "idle"
    /\ peticion = SinPeticion
    /\ user_id = None
    /\ auth_error = None
    /\ pregunta = ""
    /\ session_id = None
    /\ driver = None
    /\ plan = JNull
    /\ busqueda = SinBusqueda
    /\ contexto_items = <<>>
    /\ respuesta_dict = JObj(<<>>)
    /\ script_dict = JNull
    /\ script_code = JStr(<<>>)
    /\ asset_id = JNull
    /\ excepcion = None
    /\ respuesta = SinRespuesta
    /\ efectos = SinEfectos
    /\ supabase \in {None, "cliente"}
    /\ salidas = SinSalidas
    /\ maestro = MaestroAlArrancar

\* A request arrives; one request is followed from arrival to response
RecibirPeticion ==
    /\ pc = "idle"
    /\ \E ruta \in Rutas, cabecera \in Cabeceras, cuerpo \in Cuerpos :
          peticion' = [ruta |-> ruta, cabecera |-> cabecera, cuerpo |-> cuerpo]
    /\ pc' = "auth"
    /\ UNCHANGED <<maestro, user_id, auth_error, pregunta, session_id, driver, plan,
                   busqueda, contexto_items, respuesta_dict, script_dict,
                   script_code, asset_id, excepcion, respuesta, efectos, supabase, salidas>>

\* The response was sent: the locals of the handler are gone
Terminar ==
    /\ pc = "fin"
    /\ pc' = "idle"
    /\ peticion' = SinPeticion
    /\ user_id' = None
    /\ auth_error' = None
    /\ pregunta' = ""
    /\ session_id' = None
    /\ driver' = None
    /\ plan' = JNull
    /\ busqueda' = SinBusqueda
    /\ contexto_items' = <<>>
    /\ respuesta_dict' = JObj(<<>>)
    /\ script_dict' = JNull
    /\ script_code' = JStr(<<>>)
    /\ asset_id' = JNull
    /\ excepcion' = None
    /\ respuesta' = SinRespuesta
    /\ efectos' = SinEfectos
    /\ salidas' = SinSalidas
    /\ UNCHANGED <<maestro, supabase>>

\* the handler with the check of the body ahead of the check of the token
Autenticar_ValidaPrimero ==
    /\ pc = "auth"
    /\ LET r == get_auth_user_id(peticion.cabecera)
       IN  /\ user_id' = r[1]
           /\ auth_error' = r[2]
           /\ IF peticion.cuerpo # NoJson /\ FaltanDatos(peticion.cuerpo)
              THEN /\ respuesta' = Respuesta400
                   /\ pc' = "fin"
              ELSE IF r[2] # None
              THEN /\ respuesta' = Respuesta401(r[2])
                   /\ pc' = "fin"
              ELSE /\ respuesta' = respuesta
                   /\ pc' = "cuerpo"
    /\ UNCHANGED <<maestro, peticion, pregunta, session_id, driver, plan, busqueda,
                   contexto_items, respuesta_dict, script_dict, script_code,
                   asset_id, excepcion, efectos, supabase, salidas>>

\* user_id, auth_error = get_auth_user_id(request); if auth_error: return 401
Autenticar ==
    /\ pc = "auth"
    /\ LET r == get_auth_user_id(peticion.cabecera)
       IN  /\ user_id' = r[1]
           /\ auth_error' = r[2]
           /\ IF r[2] # None
              THEN /\ respuesta' = Respuesta401(r[2])
                   /\ pc' = "fin"
              ELSE /\ respuesta' = respuesta
                   /\ pc' = "cuerpo"
    /\ UNCHANGED <<maestro, peticion, pregunta, session_id, driver, plan, busqueda,
                   contexto_items, respuesta_dict, script_dict, script_code,
                   asset_id, excepcion, efectos, supabase, salidas>>

\* data = request.json; the 400 check; pregunta and session_id
LeerCuerpo ==
    /\ pc = "cuerpo"
    /\ LET data == peticion.cuerpo
       IN  IF data = NoJson
           THEN /\ excepcion' = "BadRequest"
                /\ pc' = "excepcion"
                /\ UNCHANGED <<pregunta, session_id, respuesta>>
           ELSE IF FaltanDatos(data)
           THEN /\ respuesta' = Respuesta400
                /\ pc' = "fin"
                /\ UNCHANGED <<pregunta, session_id, excepcion>>
           ELSE /\ pregunta' = data.o["pregunta"]
                /\ session_id' = data.o["session_id"]
                /\ pc' = IF peticion.ruta = "/preguntar" THEN "neo4j" ELSE "script"
                /\ UNCHANGED <<respuesta, excepcion>>
    /\ UNCHANGED <<maestro, peticion, user_id, auth_error, driver, plan, busqueda,
                   contexto_items, respuesta_dict, script_dict, script_code,
                   asset_id, efectos, supabase, salidas>>

\* driver = GraphDatabase.driver(...); driver.verify_connectivity()
ConectarNeo4j ==
    /\ pc = "neo4j"
    /\ efectos' = Mas(efectos, "neo4j")
    /\ \E resultado \in {"ok", "falla_driver", "falla_verify"} :
          /\ driver' = IF resultado = "falla_driver" THEN None ELSE "open"
          /\ excepcion' = IF resultado = "ok" THEN excepcion ELSE "ServiceUnavailable"
          /\ pc' = IF resultado # "ok" THEN "excepcion"
                   ELSE IF peticion.ruta = "/preguntar" THEN "plan" ELSE "asset"
    /\ UNCHANGED <<maestro, peticion, user_id, auth_error, pregunta, session_id, plan,
                   busqueda, contexto_items, respuesta_dict, script_dict,
                   script_code, asset_id, respuesta, supabase, salidas>>

\* ------------------------------------------------- PASO 1.1 Planificador

Focos == {JNull, JStr("cap1"), JStr("cap2"), JStr("otro")}
NombresConsulta == <<"c1", "c2", "c3", "c4">>
ListasConsultas == {SubSeq(NombresConsulta, 1, k) : k \in 0..MaxConsultas}

\* plans with the structure the prompt asks for
PlanesPedidos ==
    {JObj([capitulo_enfocado |-> f, consultas_busqueda |-> JList(c)]) :
        f \in Focos, c \in ListasConsultas}

\* any JSON text parses: the model may leave a key out, put null in it, or
\* answer with a value that is no object
PlanesJSON ==
    PlanesPedidos \cup
    {JObj([capitulo_enfocado |-> JStr("cap1")]),
     JObj([capitulo_enfocado |-> JNull, consultas_busqueda |-> JNull]),
     JList(<<>>), JNull}

\* what modelo_gemini.generate_content and json.loads can do
SalidasPlanificador ==
    {[tipo |-> "raise", valor |-> JNull], [tipo |-> "no_json", valor |-> JNull]} \cup
    {[tipo |-> "json", valor |-> v] : v \in PlanesJSON}

PlanDeRespaldo(pregunta_usuario) ==
    JObj([capitulo_enfocado |-> JNull,
          consultas_busqueda |-> JList(<<pregunta_usuario>>)])

\* the chapter list only feeds the prompt; a failed read leaves it empty
get_plan_de_busqueda(pregunta_usuario, salida) ==
    IF salida.tipo = "json" THEN salida.valor
    ELSE PlanDeRespaldo(pregunta_usuario)

Planificador ==
    /\ pc = "plan"
    /\ \E salida \in SalidasPlanificador :
          /\ plan' = get_plan_de_busqueda(pregunta, salida)
          /\ salidas' = [salidas EXCEPT !.planificador = salida.tipo]
    /\ efectos' = Mas(efectos, "llm")
    /\ pc' = "buscar"
    /\ UNCHANGED <<maestro, peticion, user_id, auth_error, pregunta, session_id, driver,
                   busqueda, contexto_items, respuesta_dict, script_dict,
                   script_code, asset_id, excepcion, respuesta, supabase>>

\* every result the query can give for a focus and a number of vectors
ResultadosCypher ==
    [f \in Focos |-> [n \in 1..MaxConsultas |->
        {cypher_query(c, f, d) : c \in Coincidencias(n), d \in Desempates}]]

\* buscar_en_grafo(driver, plan) inside the handler
Investigador ==
    /\ pc = "buscar"
    /\ IF PlanRompeInvestigador(plan)
       THEN /\ excepcion' = IF EsDict(plan) THEN "TypeError" ELSE "AttributeError"
            /\ pc' = "excepcion"
            /\ UNCHANGED contexto_items
       ELSE \E emb_ok \in SUBSET (1..Len(consultas_de(plan).l)) :
               \/ /\ emb_ok # {}
                  /\ excepcion' = "Neo4jError"
                  /\ pc' = "excepcion"
                  /\ UNCHANGED contexto_items
               \/ /\ emb_ok = {}
                  /\ contexto_items' = buscar_en_grafo(plan, emb_ok, <<>>)
                  /\ pc' = "redactar"
                  /\ UNCHANGED excepcion
               \/ /\ emb_ok # {}
                  /\ \E contexto_encontrado \in
                         ResultadosCypher[capitulo_enfocado_de(plan)][Cardinality(emb_ok)] :
                        contexto_items' = buscar_en_grafo(plan, emb_ok, contexto_encontrado)
                  /\ pc' = "redactar"
                  /\ UNCHANGED excepcion
    /\ UNCHANGED <<maestro, peticion, user_id, auth_error, pregunta, session_id, driver,
                   plan, busqueda, respuesta_dict, script_dict, script_code,
                   asset_id, respuesta, efectos, supabase, salidas>>

\* --------------------------------------------------- PASO 1.3 Redactor

NO_ENCONTRADO ==
    <<"Lo", "siento,", "no", "pude", "encontrar", "información", "sobre", "eso",
      "en", "mi", "base", "de", "conocimientos", "del", "manual.">>
ERROR_REDACTOR ==
    <<"Ocurrió", "un", "error", "al", "generar", "la", "respuesta", "JSON.">>
ERROR_INTERNO ==
    <<"Ocurrió", "un", "error", "interno", "mayor", "al", "procesar", "tu",
      "solicitud.">>
\* the sentence the prompt tells the model to use when the context has no answer
NO_HALLADO ==
    <<"Lo", "siento,", "encontré", "información", "relacionada,", "pero", "no",
      "pude", "hallar", "una", "respuesta", "específica", "a", "tu", "pregunta",
      "en", "el", "manual.">>
TEXTO_MODELO == <<"texto", "redactado", "por", "el", "modelo">>

\* f"{item['capitulo']} (Parte: {item['parte']}, Pág {item['pagina']})"
Fuente(item) == <<item.capitulo, item.parte, item.pagina>>

\* ", ".join(fuentes_encontradas): a citation text is kept as the set of the
\* labels it names (the order of a Python set is arbitrary)
fuente_unica(items) == {Fuente(items[k]) : k \in 1..Len(items)}

FUENTE_AJENA == <<"cap9", "parte9", "99">>
PUNTO == JObj([titulo |-> JStr(<<"titulo">>), descripcion |-> JStr(<<"descripcion">>)])

Answer(principal, puntos, fuente) ==
    JObj([respuesta_principal |-> JStr(principal), puntos_clave |-> JList(puntos),
          fuente |-> JStr(fuente)])

\* what the model can answer to the Redactor's prompt: the structure asked
\* for citing the context, the "no answer in the context" reply, a citation of
\* a source that is not in the context, an object without the fields, a list
RespuestasJSON(items) ==
    {Answer(TEXTO_MODELO, <<PUNTO>>, fuente_unica(items)),
     Answer(NO_HALLADO, <<>>, {}),
     Answer(TEXTO_MODELO, <<PUNTO>>, {FUENTE_AJENA}),
     JObj([respuesta_principal |-> JStr(TEXTO_MODELO)]),
     JList(<<>>)}

SalidasRedactor(items) ==
    {[tipo |-> "raise", valor |-> JNull], [tipo |-> "no_json", valor |-> JNull]} \cup
    {[tipo |-> "json", valor |-> v] : v \in RespuestasJSON(items)}

\* generar_respuesta_final whose except clause returns nothing
generar_respuesta_final_sin_respaldo(pregunta_usuario, items, salida) ==
    IF salida.tipo = "json" THEN salida.valor
    ELSE JNull

generar_respuesta_final(pregunta_usuario, items, salida) ==
    IF salida.tipo = "json" THEN salida.valor
    ELSE Answer(ERROR_REDACTOR, <<>>, {})

\* the Redactor step without the test of the empty context
Redactor_SiempreRedacta ==
    /\ pc = "redactar"
    /\ \E salida \in SalidasRedactor(contexto_items) :
          /\ respuesta_dict' =
                generar_respuesta_final(pregunta, contexto_items, salida)
          /\ salidas' = [salidas EXCEPT !.redactor = salida.tipo]
    /\ efectos' = Mas(Mas(efectos, "llm"), "redactor")
    /\ pc' = "log"
    /\ UNCHANGED <<maestro, peticion, user_id, auth_error, pregunta, session_id, driver,
                   plan, busqueda, contexto_items, script_dict, script_code,
                   asset_id, excepcion, respuesta, supabase>>

\* if not contexto_items: the fixed Answer, else generar_respuesta_final
Redactor ==
    /\ pc = "redactar"
    /\ IF contexto_items = <<>>
       THEN /\ respuesta_dict' = Answer(NO_ENCONTRADO, <<>>, {})
            /\ UNCHANGED <<efectos, salidas>>
       ELSE /\ \E salida \in SalidasRedactor(contexto_items) :
                  /\ respuesta_dict' =
                        generar_respuesta_final(pregunta, contexto_items, salida)
                  /\ salidas' = [salidas EXCEPT !.redactor = salida.tipo]
            /\ efectos' = Mas(Mas(efectos, "llm"), "redactor")
    /\ pc' = "log"
    /\ UNCHANGED <<maestro, peticion, user_id, auth_error, pregunta, session_id, driver,
                   plan, busqueda, contexto_items, script_dict, script_code,
                   asset_id, excepcion, respuesta, supabase>>

\* ------------------------------------------ log_conversation_to_supabase

\* supabase.table(...).insert(data).execute() returns or raises
ResultadosInsert == {"ok", "raise"}

\* the insert is attempted when the client exists; whether it succeeds or
\* raises, the function returns normally
log_conversation_to_supabase(e, resultado) ==
    IF supabase = None THEN e
    ELSE [Mas(e, "logs") EXCEPT !.insert = resultado]

\* finally: if driver: driver.close()
Cerrar(d) == IF d = "open" THEN "closed" ELSE d

\* the log call without the try of log_conversation_to_supabase: an insert
\* that raises reaches the except clause of the handler
Responder_SinCapturar ==
    /\ pc = "log"
    /\ \E resultado \in ResultadosInsert :
          /\ efectos' = log_conversation_to_supabase(efectos, resultado)
          /\ IF supabase # None /\ resultado = "raise"
             THEN /\ excepcion' = "APIError"
                  /\ pc' = "excepcion"
                  /\ UNCHANGED <<respuesta, driver>>
             ELSE /\ respuesta' = [status |-> 200, body |-> respuesta_dict]
                  /\ driver' = Cerrar(driver)
                  /\ pc' = "fin"
                  /\ UNCHANGED excepcion
    /\ UNCHANGED <<maestro, peticion, user_id, auth_error, pregunta, session_id, plan,
                   busqueda, contexto_items, respuesta_dict, script_dict,
                   script_code, asset_id, supabase, salidas>>

\* the log call and return jsonify(respuesta_dict)
Responder ==
    /\ pc = "log"
    /\ \E resultado \in ResultadosInsert :
          efectos' = log_conversation_to_supabase(efectos, resultado)
    /\ respuesta' = [status |-> 200, body |-> respuesta_dict]
    /\ driver' = Cerrar(driver)
    /\ pc' = "fin"
    /\ UNCHANGED <<maestro, peticion, user_id, auth_error, pregunta, session_id, plan,
                   busqueda, contexto_items, respuesta_dict, script_dict,
                   script_code, asset_id, excepcion, supabase, salidas>>

\* except Exception as e: in manejar_pregunta
ManejarExcepcionPregunta ==
    /\ pc = "excepcion"
    /\ peticion.ruta = "/preguntar"
    /\ \E resultado \in ResultadosInsert :
          efectos' = IF pregunta # "" /\ user_id # None /\ session_id # None
                     THEN log_conversation_to_supabase(efectos, resultado)
                     ELSE efectos
    /\ respuesta' = [status |-> 500, body |-> Answer(ERROR_INTERNO, <<>>, {})]
    /\ driver' = Cerrar(driver)
    /\ pc' = "fin"
    /\ UNCHANGED <<maestro, peticion, user_id, auth_error, pregunta, session_id, plan,
                   busqueda, contexto_items, respuesta_dict, script_dict,
                   script_code, asset_id, excepcion, supabase, salidas>>

\* ------------------------------------------------ PASO 2.1 Script Composer

MARCA_ERROR == "# Error al generar el script"
CODIGO == <<"import bpy", "bpy.ops.mesh.primitive_cube_add()">>

\* what the model can answer to the script prompt: the structure asked for,
\* a script that carries the error marker in a comment, a script that is
\* null, a list, an object or missing, and a value that is no object
ScriptsJSON ==
    {JObj([script |-> JStr(CODIGO)]),
     JObj([script |-> JStr(<<"import bpy", MARCA_ERROR>>)]),
     JObj([script |-> JNull]),
     JObj([script |-> JList(<<JStr(CODIGO)>>)]),
     JObj([script |-> JObj([codigo |-> JStr(CODIGO)])]),
     JObj(<<>>),
     JList(<<>>)}

SalidasGenerador ==
    {[tipo |-> "raise", valor |-> JNull], [tipo |-> "no_json", valor |-> JNull]} \cup
    {[tipo |-> "json", valor |-> v] : v \in ScriptsJSON}

\* {"script": f"# Error al generar el script.\n# {error_message}"}
generar_script_blender(prompt_usuario, salida) ==
    IF salida.tipo = "json" THEN salida.valor
    ELSE JObj([script |-> JStr(<<MARCA_ERROR, ".\n# ",
                                 IF salida.tipo = "raise" THEN "DeadlineExceeded"
                                 ELSE "JSONDecodeError">>)])

GeneradorScript ==
    /\ pc = "script"
    /\ \E salida \in SalidasGenerador :
          /\ script_dict' = generar_script_blender(pregunta, salida)
          /\ salidas' = [salidas EXCEPT !.generador = salida.tipo]
    /\ efectos' = Mas(efectos, "llm")
    /\ pc' = "script_code"
    /\ UNCHANGED <<maestro, peticion, user_id, auth_error, pregunta, session_id, driver,
                   plan, busqueda, contexto_items, respuesta_dict, script_code,
                   asset_id, excepcion, respuesta, supabase>>

\* "# Error al generar el script" in script_code: a substring test on a str,
\* a membership test on a list or a dict, a TypeError on anything else
EnRompe(valor) == valor.t \notin {"str", "list", "obj"}
En(frag, valor) ==
    CASE valor.t = "str"  -> Contiene(valor.s, frag)
      [] valor.t = "list" -> \E i \in 1..Len(valor.l) : valor.l[i] = JStr(<<frag>>)
      [] valor.t = "obj"  -> frag \in DOMAIN valor.o
      [] OTHER            -> FALSE

\* script_code = script_dict.get("script", ...) and the early return of the
\* generation failure
ExtraerScript ==
    /\ pc = "script_code"
    /\ IF ~EsDict(script_dict)
       THEN /\ excepcion' = "AttributeError"
            /\ pc' = "excepcion"
            /\ UNCHANGED <<script_code, respuesta, efectos>>
       ELSE LET codigo == DictGet(script_dict, "script",
                                  JStr(<<"# No se generó código.">>))
            IN  /\ script_code' = codigo
                /\ IF EnRompe(codigo)
                   THEN /\ excepcion' = "TypeError"
                        /\ pc' = "excepcion"
                        /\ UNCHANGED <<respuesta, efectos>>
                   ELSE IF En(MARCA_ERROR, codigo)
                   THEN /\ \E resultado \in ResultadosInsert :
                              efectos' = log_conversation_to_supabase(efectos, resultado)
                        /\ respuesta' = [status |-> 500, body |-> script_dict]
                        /\ pc' = "fin"
                        /\ UNCHANGED excepcion
                   ELSE /\ pc' = "neo4j"
                        /\ UNCHANGED <<respuesta, efectos, excepcion>>
    /\ UNCHANGED <<maestro, peticion, user_id, auth_error, pregunta, session_id, driver,
                   plan, busqueda, contexto_items, respuesta_dict, script_dict,
                   asset_id, supabase, salidas>>

\* CREATE (a:Asset:GeneratedAsset {...}) RETURN ID(a) AS asset_id. A property
\* cannot hold a map. The statement can take effect and the read of its
\* result still fail (the connection drops after the commit).
CrearAsset ==
    /\ pc = "asset"
    /\ \E resultado \in {"ok", "falla", "falla_tras_crear"} :
          /\ script_code.t = "obj" => resultado = "falla"
          /\ efectos' = IF resultado = "falla" THEN efectos ELSE Mas(efectos, "assets")
          /\ asset_id' = IF resultado = "ok" THEN JNum(42) ELSE asset_id
          /\ excepcion' = IF resultado = "ok" THEN excepcion ELSE "Neo4jError"
          /\ pc' = IF resultado = "ok" THEN "log_script" ELSE "excepcion"
    /\ UNCHANGED <<maestro, peticion, user_id, auth_error, pregunta, session_id, driver,
                   plan, busqueda, contexto_items, respuesta_dict, script_dict,
                   script_code, respuesta, supabase, salidas>>

\* the log call and the 200 response of /generar-script
ResponderScript ==
    /\ pc = "log_script"
    /\ \E resultado \in ResultadosInsert :
          efectos' = log_conversation_to_supabase(efectos, resultado)
    /\ respuesta' =
          [status |-> 200,
           body |-> JObj([script |-> script_code, asset_id |-> asset_id,
                          status |-> JStr(<<"PENDIENTE">>),
                          message |-> JStr(<<"Script generado y guardado.">>)])]
    /\ driver' = Cerrar(driver)
    /\ pc' = "fin"
    /\ UNCHANGED <<maestro, peticion, user_id, auth_error, pregunta, session_id, plan,
                   busqueda, contexto_items, respuesta_dict, script_dict,
                   script_code, asset_id, excepcion, supabase, salidas>>

\* except Exception as e: in manejar_generacion_script
ManejarExcepcionScript ==
    /\ pc = "excepcion"
    /\ peticion.ruta = "/generar-script"
    /\ \E resultado \in ResultadosInsert :
          efectos' = log_conversation_to_supabase(efectos, resultado)
    /\ respuesta' =
          [status |-> 500,
           body |-> JObj([script |-> JStr(<<"# Error fatal en el servidor: ", excepcion>>),
                          asset_id |-> JNull,
                          status |-> JStr(<<"FALLO">>)])]
    /\ driver' = Cerrar(driver)
    /\ pc' = "fin"
    /\ UNCHANGED <<maestro, peticion, user_id, auth_error, pregunta, session_id, plan,
                   busqueda, contexto_items, respuesta_dict, script_dict,
                   script_code, asset_id, excepcion, supabase, salidas>>

\* ------------------------------------------------------- the specification

Next ==
    \/ RecibirPeticion
    \/ Autenticar
    \/ LeerCuerpo
    \/ ConectarNeo4j
    \/ Planificador
    \/ Investigador
    \/ Redactor
    \/ Responder
    \/ ManejarExcepcionPregunta
    \/ GeneradorScript
    \/ ExtraerScript
    \/ CrearAsset
    \/ ResponderScript
    \/ ManejarExcepcionScript
    \/ Terminar

Spec == Init /\ [][Next]_vars

\* ------------------------------------------- the Investigador on its own

\* plans buscar_en_grafo can read
PlanesLegibles == {p \in PlanesJSON : ~PlanRompeInvestigador(p)}

\* the embeddings that succeeded (which ones failed does not reach the query,
\* so the first k stand for any k) and the matches of their vectors; the
\* order of ties is the database's choice when the query runs
EntradaBusqueda(k, c) ==
    [emb_ok |-> 1..k, coincidencias |-> c, desempate |-> SinBusqueda.desempate]

InitBuscar ==
    /\ pc = "buscar"
    /\ peticion = [ruta |-> "/preguntar", cabecera |-> <<"Bearer", "valido">>,
                   cuerpo |-> JObj([pregunta |-> "q", session_id |-> "s1"])]
    /\ user_id = "u1"
    /\ auth_error = None
    /\ pregunta = "q"
    /\ session_id = "s1"
    /\ driver = "open"
    /\ plan \in PlanesLegibles
    /\ \E k \in 0..Len(consultas_de(plan).l) :
          \E c \in Coincidencias(k) : busqueda = EntradaBusqueda(k, c)
    /\ contexto_items = <<>>
    /\ respuesta_dict = JObj(<<>>)
    /\ script_dict = JNull
    /\ script_code = JStr(<<>>)
    /\ asset_id = JNull
    /\ excepcion = None
    /\ respuesta = SinRespuesta
    /\ efectos = [SinEfectos EXCEPT !.neo4j = 1, !.llm = 1]
    /\ supabase = "cliente"
    /\ salidas = [SinSalidas EXCEPT !.planificador = "json"]
    /\ maestro = MaestroAlArrancar

\* buscar_en_grafo applied to the recorded answers of the embedding API and
\* of the vector index
InvestigadorRegistrado ==
    /\ pc = "buscar"
    /\ \E d \in Desempates :
          /\ busqueda' = [busqueda EXCEPT !.desempate = d]
          /\ contexto_items' =
                buscar_en_grafo(plan, busqueda.emb_ok,
                                cypher_query(busqueda.coincidencias,
                                             capitulo_enfocado_de(plan), d))
    /\ pc' = "redactar"
    /\ UNCHANGED <<maestro, peticion, user_id, auth_error, pregunta, session_id, driver,
                   plan, respuesta_dict, script_dict, script_code,
                   asset_id, excepcion, respuesta, efectos, supabase, salidas>>

NextBuscar == InvestigadorRegistrado

SpecBuscar == InitBuscar /\ [][NextBuscar]_vars

\* ================================================================ claims

\* ------------------------------------------------- ciclo_vida_maestro

\* data.data of historial_prompts: no row, or some rows
FilasDePrompts == {<<>>, <<"prompt1">>}

\* FASE 1: obtener_metricas_memoria and obtener_tendencias_usuarios. A table
\* that cannot be read is left out of the summary, a failed read of the
\* prompts gives []; with nothing read the cycle sleeps and starts over.
Recolectar ==
    /\ maestro.pc = "scan"
    /\ \E leidas \in SUBSET TablasMemoria, lectura \in {"ok", "raise"},
          filas \in FilasDePrompts :
          LET metricas == leidas
              prompts == IF lectura = "ok" THEN filas ELSE <<>>
              fallo == IF leidas # TablasMemoria \/ lectura = "raise"
                       THEN "telemetria" ELSE None
          IN  maestro' =
                 [maestro EXCEPT
                    !.metricas = metricas,
                    !.prompts = prompts,
                    !.fallo = fallo,
                    !.escrituras = 0,
                    !.en_cooldown = (maestro.desde < COOLDOWN),
                    !.pc = IF prompts = <<>> /\ metricas = {}
                           THEN "idle" ELSE "analizar",
                    !.espera = IF prompts = <<>> /\ metricas = {}
                               THEN CICLO_ANALISIS ELSE 0]
    /\ UNCHANGED vars_app

\* the sleep of the idle cycle, then `continue`
DormirSinActividad ==
    /\ maestro.pc = "idle"
    /\ maestro' =
          [maestro EXCEPT
             !.espera = @ - 1,
             !.desde = IF @ < COOLDOWN THEN @ + 1 ELSE @,
             !.pc = IF maestro.espera = 1 THEN "scan" ELSE "idle"]
    /\ UNCHANGED vars_app

\* FASE 2 without the except clause of the loop: a call that raises ends
\* ciclo_vida_maestro
Analizar_SinExcept ==
    /\ maestro.pc = "analizar"
    /\ \E llamada \in {"ok", "raise"} :
          maestro' =
             IF llamada = "ok" THEN [maestro EXCEPT !.pc = "ejecutar"]
             ELSE [maestro EXCEPT !.pc = "terminado", !.fallo = "llm"]
    /\ UNCHANGED vars_app

\* FASE 2: response = model.generate_content(prompt_analisis); an exception
\* goes to the except clause of the loop
Analizar ==
    /\ maestro.pc = "analizar"
    /\ \E llamada \in {"ok", "raise"} :
          maestro' =
             IF llamada = "ok" THEN [maestro EXCEPT !.pc = "ejecutar"]
             ELSE [maestro EXCEPT !.pc = "reintento", !.fallo = "llm",
                                  !.espera = ESPERA_REINTENTO]
    /\ UNCHANGED vars_app

\* what response.text, json.loads and the insert of guardar_informe can do
SalidasDelAnalisis ==
    {"texto_raise", "texto_vacio", "no_json", "json_no_dict", "insert_ok",
     "insert_raise"}

\* FASE 3: response.text, limpiar_json, json.loads, guardar_informe.
\* response.text can raise (to the except clause of the loop); invalid JSON is
\* caught by except json.JSONDecodeError; guardar_informe catches whatever
\* its .get calls or its insert raise.
Ejecutar ==
    /\ maestro.pc = "ejecutar"
    /\ \E salida \in SalidasDelAnalisis :
          maestro' =
             CASE salida = "texto_raise" ->
                     [maestro EXCEPT !.pc = "reintento", !.fallo = "llm",
                                     !.espera = ESPERA_REINTENTO]
               [] salida = "texto_vacio" ->
                     [maestro EXCEPT !.pc = "espera", !.espera = CICLO_ANALISIS]
               [] salida = "no_json" ->
                     [maestro EXCEPT !.pc = "espera", !.espera = CICLO_ANALISIS,
                                     !.fallo = "json"]
               [] salida = "insert_ok" ->
                     [maestro EXCEPT !.pc = "espera", !.espera = CICLO_ANALISIS,
                                     !.escrituras = @ + 1]
               [] OTHER ->
                     [maestro EXCEPT !.pc = "espera", !.espera = CICLO_ANALISIS,
                                     !.fallo = "insert"]
    /\ UNCHANGED vars_app

\* the progress bar: time.sleep in steps until CICLO_ANALISIS has passed
BarraDeProgreso ==
    /\ maestro.pc = "espera"
    /\ maestro' =
          [maestro EXCEPT
             !.espera = @ - 1,
             !.desde = IF @ < COOLDOWN THEN @ + 1 ELSE @,
             !.pc = IF maestro.espera = 1 THEN "scan" ELSE "espera"]
    /\ UNCHANGED vars_app

\* except Exception: log, time.sleep(60), next turn of the loop
Reintentar ==
    /\ maestro.pc = "reintento"
    /\ maestro' =
          [maestro EXCEPT
             !.espera = @ - 1,
             !.desde = IF @ < COOLDOWN THEN @ + 1 ELSE @,
             !.pc = IF maestro.espera = 1 THEN "scan" ELSE "reintento"]
    /\ UNCHANGED vars_app

\* a user request reaches app.py while the loop runs
ActividadUsuario ==
    /\ maestro.desde # 0
    /\ maestro' = [maestro EXCEPT !.desde = 0]
    /\ UNCHANGED vars_app

PasoMaestro ==
    \/ Recolectar
    \/ DormirSinActividad
    \/ Analizar
    \/ Ejecutar
    \/ BarraDeProgreso
    \/ Reintentar

InitMaestro ==
    /\ pc = "idle"
    /\ peticion = SinPeticion
    /\ user_id = None
    /\ auth_error = None
    /\ pregunta = ""
    /\ session_id = None
    /\ driver = None
    /\ plan = JNull
    /\ busqueda = SinBusqueda
    /\ contexto_items = <<>>
    /\ respuesta_dict = JObj(<<>>)
    /\ script_dict = JNull
    /\ script_code = JStr(<<>>)
    /\ asset_id = JNull
    /\ excepcion = None
    /\ respuesta = SinRespuesta
    /\ efectos = SinEfectos
    /\ supabase = "cliente"
    /\ salidas = SinSalidas
    /\ maestro = MaestroAlArrancar

NextMaestro ==
    \/ Recolectar
    \/ DormirSinActividad
    \/ Analizar
    \/ Ejecutar
    \/ BarraDeProgreso
    \/ Reintentar
    \/ ActividadUsuario

\* the loop is a process of its own: it keeps taking steps, and every
\* time.sleep returns
SpecMaestro == InitMaestro /\ [][NextMaestro]_vars /\ WF_vars(PasoMaestro)

\* ------------------------------------------------------------------ claims

Enviada == pc = "fin"
TieneCampo(body, k) == EsDict(body) /\ k \in DOMAIN body.o

\* buscar_en_grafo returned to manejar_pregunta
InvestigadorVolvio ==
    /\ peticion.ruta = "/preguntar"
    /\ salidas.planificador # None
    /\ excepcion = None
    /\ pc \in {"redactar", "log", "fin"}

\* ---------------------------------------------------------------------- C1

PreguntaAusenteOVacia ==
    LET data == peticion.cuerpo
    IN  /\ data # NoJson
        /\ \/ data = JNull
           \/ "pregunta" \notin DOMAIN data.o
           \/ data.o["pregunta"] = ""

\* C1: an authenticated POST /preguntar whose JSON body has no 'pregunta'
\* field, or an empty 'pregunta', is answered with HTTP 400 and a JSON body
\* with an 'error' field.
C1_PreguntaAusenteOVaciaDa400 ==
    (Enviada /\ peticion.ruta = "/preguntar" /\ auth_error = None
        /\ PreguntaAusenteOVacia)
    => (respuesta.status = 400 /\ TieneCampo(respuesta.body, "error"))

\* ---------------------------------------------------------------------- C2

\* C2: when buscar_en_grafo returns no item, generar_respuesta_final is not
\* called in the request and the response is the fixed "not found" Answer
\* with puntos_clave == [] and fuente == "".
C2_SinContextoNoEncontrado ==
    (InvestigadorVolvio /\ contexto_items = <<>>)
    => /\ efectos.redactor = 0
       /\ salidas.redactor = None
       /\ Enviada =>
             /\ TieneCampo(respuesta.body, "respuesta_principal")
             /\ respuesta.body.o["respuesta_principal"] =
                   JStr(<<"Lo", "siento,", "no", "pude", "encontrar", "información",
                          "sobre", "eso", "en", "mi", "base", "de", "conocimientos",
                          "del", "manual.">>)
             /\ TieneCampo(respuesta.body, "puntos_clave")
             /\ respuesta.body.o["puntos_clave"] = JList(<<>>)
             /\ TieneCampo(respuesta.body, "fuente")
             /\ respuesta.body.o["fuente"] = JStr({})

\* a request with queries in its plan whose retrieval came back empty got its
\* response
C2_Testigo ==
    /\ Enviada
    /\ InvestigadorVolvio
    /\ contexto_items = <<>>
    /\ Len(consultas_de(plan).l) > 0
    /\ respuesta.status = 200

\* ---------------------------------------------------------------------- C3

\* C3: every response of /generar-script other than the 401 of the
\* authentication carries a 'script' field whose value is a string, the 400
\* of a rejected body included.
C3_ScriptSiempreString ==
    (Enviada /\ peticion.ruta = "/generar-script" /\ respuesta.status # 401)
    => /\ TieneCampo(respuesta.body, "script")
       /\ respuesta.body.o["script"].t = "str"

\* ---------------------------------------------------------------------- C4

CamposDeExito(ruta) ==
    IF ruta = "/preguntar" THEN {"respuesta_principal", "puntos_clave", "fuente"}
    ELSE {"script", "asset_id", "status"}

\* C4: every response of the two endpoints other than the {"error": ...}
\* bodies of the 400 and 401 rejections is a JSON object with the fields of
\* the endpoint's success shape.
C4_FormaDeExito ==
    (Enviada /\ respuesta.status \notin {400, 401})
    => /\ EsDict(respuesta.body)
       /\ CamposDeExito(peticion.ruta) \subseteq DOMAIN respuesta.body.o

\* ---------------------------------------------------------------------- C5

CabeceraAusente(c) == c = <<>> \/ c = <<"">>
CabeceraMalFormada(c) == ~CabeceraAusente(c) /\ Len(c) < 2
TokenCaducado(c) == Len(c) >= 2 /\ c[2] = "caducado"
TokenNoValida(c) == Len(c) >= 2 /\ c[2] \in {"firma_mala", "basura", "otra_audiencia"}
CabeceraRechazable(c) ==
    CabeceraAusente(c) \/ CabeceraMalFormada(c) \/ TokenCaducado(c) \/ TokenNoValida(c)

RazonesDe(c) ==
    IF CabeceraAusente(c) THEN {"Authorization token is missing"}
    ELSE IF CabeceraMalFormada(c) THEN {"Invalid Authorization header format"}
    ELSE IF TokenCaducado(c) THEN {"Token has expired"}
    ELSE {"Invalid token signature", "Token validation failed"}

\* C5: a request whose Authorization header is missing, malformed, expired or
\* fails validation is answered with 401 and an 'error' naming the reason,
\* and nothing of the request is processed unless get_auth_user_id returned
\* no error.
C5_RechazoDeAutenticacion ==
    /\ (pc \notin {"idle", "auth"} /\ CabeceraRechazable(peticion.cabecera))
       => /\ Enviada
          /\ respuesta.status = 401
          /\ TieneCampo(respuesta.body, "error")
          /\ \E r \in RazonesDe(peticion.cabecera) :
                respuesta.body.o["error"] = JStr(<<"Acceso denegado: ", r>>)
          /\ efectos = SinEfectos
    /\ pc \notin {"idle", "auth", "fin"} => auth_error = None
    /\ (Enviada /\ auth_error # None) => respuesta.status = 401

C5_Testigo ==
    /\ Enviada
    /\ peticion.cabecera = <<"Bearer", "caducado">>
    /\ respuesta.status = 401

\* ---------------------------------------------------------------------- C6

\* C6: a Planner call that raises or cannot be parsed yields the fallback
\* plan, and no output of the Planner makes the Retriever step raise on the
\* shape of the plan.
C6_PlanificadorNuncaRompe ==
    /\ (peticion.ruta = "/preguntar" /\ salidas.planificador \in {"raise", "no_json"})
       => plan = JObj([capitulo_enfocado |-> JNull,
                       consultas_busqueda |-> JList(<<pregunta>>)])
    /\ ~(/\ peticion.ruta = "/preguntar"
         /\ salidas.planificador # None
         /\ excepcion \in {"AttributeError", "TypeError"})

\* ---------------------------------------------------------------------- C7

PalabrasDeConectividad ==
    {"conexión", "conexion", "conectividad", "conectar", "conectarse", "red",
     "connectivity", "connection", "network", "timeout"}
MencionaConectividad(texto) ==
    \E i \in 1..Len(texto) : texto[i] \in PalabrasDeConectividad

FalloDelRedactor ==
    /\ Enviada
    /\ InvestigadorVolvio
    /\ contexto_items # <<>>
    /\ salidas.redactor \in {"raise", "no_json"}

\* C7 as claimed: with a non-empty context and a failed or unparseable
\* answer generation the response is a 200 whose respuesta_principal
\* mentions connectivity and whose puntos_clave is [].
C7_Original ==
    FalloDelRedactor
    => /\ respuesta.status = 200
       /\ TieneCampo(respuesta.body, "respuesta_principal")
       /\ MencionaConectividad(respuesta.body.o["respuesta_principal"].s)
       /\ TieneCampo(respuesta.body, "puntos_clave")
       /\ respuesta.body.o["puntos_clave"] = JList(<<>>)

\* C7 as amended: with a non-empty context and a failed or unparseable answer
\* generation the response is a 200 whose respuesta_principal is the fixed
\* sentence "Ocurrió un error al generar la respuesta JSON.", which does not
\* mention connectivity, with puntos_clave == [] and fuente == "".
C7_ErrorDelRedactorDa200 ==
    FalloDelRedactor
    => /\ respuesta.status = 200
       /\ TieneCampo(respuesta.body, "respuesta_principal")
       /\ respuesta.body.o["respuesta_principal"] =
             JStr(<<"Ocurrió", "un", "error", "al", "generar", "la", "respuesta",
                    "JSON.">>)
       /\ ~MencionaConectividad(respuesta.body.o["respuesta_principal"].s)
       /\ TieneCampo(respuesta.body, "puntos_clave")
       /\ respuesta.body.o["puntos_clave"] = JList(<<>>)
       /\ TieneCampo(respuesta.body, "fuente")
       /\ respuesta.body.o["fuente"] = JStr({})

C7_Testigo ==
    /\ FalloDelRedactor
    /\ salidas.redactor = "raise"
    /\ respuesta.status = 200

\* ---------------------------------------------------------------------- C8

\* C8: with a non-empty context the 'fuente' of the returned Answer is not
\* empty and names only labels of items of the context.
C8_FuenteDelContexto ==
    (Enviada /\ InvestigadorVolvio /\ contexto_items # <<>>)
    => /\ TieneCampo(respuesta.body, "fuente")
       /\ respuesta.body.o["fuente"].t = "str"
       /\ respuesta.body.o["fuente"].s # {}
       /\ respuesta.body.o["fuente"].s \subseteq fuente_unica(contexto_items)

\* ---------------------------------------------------------------- C9, C10

Investigado == pc = "redactar" /\ busqueda.emb_ok # {}
FocoDelPlan == capitulo_enfocado_de(plan)

Veces(texto, items) ==
    Cardinality({k \in 1..Len(items) : items[k].contenido = texto})

\* the highest effective score among the matches of chunk n
MejorEfectivo(n) ==
    LET c == busqueda.coincidencias[n]
        mejor == CHOOSE x \in {c[i] : i \in 1..Len(c)} :
                    \A i \in 1..Len(c) : c[i] <= x
    IN  IF FocoDelPlan = JStr(CapituloDe[n]) THEN mejor + BOOST ELSE mejor

DosConsultasCoinciden(n) == Len(busqueda.coincidencias[n]) >= 2

\* C9: a chunk matched by two queries of one plan is in the result of
\* buscar_en_grafo exactly once, and its entry carries the highest effective
\* score among its matches.
C9_ExactamenteUnaVez ==
    Investigado =>
        \A n \in Nodos : DosConsultasCoinciden(n) =>
            /\ Veces(Texto[n], contexto_items) = 1
            /\ \A k \in 1..Len(contexto_items) :
                  contexto_items[k].contenido = Texto[n]
                  => contexto_items[k].score = MejorEfectivo(n)

\* place of a chunk in a result, LIMITE + 1 when it is not in it
Rango(texto, items) ==
    IF \E k \in 1..Len(items) : items[k].contenido = texto
    THEN CHOOSE k \in 1..Len(items) : items[k].contenido = texto
    ELSE LIMITE + 1

\* the result for the same matches and the same order of ties with a null focus
ContextoSinFoco ==
    buscar_en_grafo(plan, busqueda.emb_ok,
                    cypher_query(busqueda.coincidencias, JNull, busqueda.desempate))

NodoDe(texto) == CHOOSE n \in Nodos : Texto[n] = texto

\* C10: for the same matches, raw scores and order of ties, a chunk of the
\* focused chapter has in the result a place no lower than with a null focus,
\* and an entry of another chapter carries the raw score of one of its
\* matches.
C10_ElFocoNoBaja ==
    Investigado =>
        /\ LET sin_foco == ContextoSinFoco
           IN  \A n \in Nodos :
                  FocoDelPlan = JStr(CapituloDe[n])
                  => Rango(Texto[n], contexto_items) <= Rango(Texto[n], sin_foco)
        /\ \A k \in 1..Len(contexto_items) :
              FocoDelPlan # JStr(contexto_items[k].capitulo)
              => \E i \in 1..Len(busqueda.coincidencias[NodoDe(contexto_items[k].contenido)]) :
                    busqueda.coincidencias[NodoDe(contexto_items[k].contenido)][i]
                       = contexto_items[k].score

\* the focus moved a chunk of its chapter ahead of a chunk of another chapter
C10_Testigo ==
    /\ Investigado
    /\ \E n \in Nodos :
          /\ FocoDelPlan = JStr(CapituloDe[n])
          /\ Rango(Texto[n], contexto_items) < Rango(Texto[n], ContextoSinFoco)
          /\ Rango(Texto[n], ContextoSinFoco) <= LIMITE
    /\ \E k \in 1..Len(contexto_items) :
          FocoDelPlan # JStr(contexto_items[k].capitulo)

\* --------------------------------------------------------------------- C13

\* the chunks that some query vector matched
Coincidentes == {n \in Nodos : Len(busqueda.coincidencias[n]) > 0}

TopN == IF Cardinality(Coincidentes) < LIMITE THEN Cardinality(Coincidentes)
        ELSE LIMITE

\* C13: the result of buscar_en_grafo is the LIMITE (= 3) distinct chunks of
\* highest effective score among all matches of all queries, each once with
\* its highest effective score, in non-increasing order of score; it has
\* fewer than LIMITE items only when fewer than LIMITE distinct chunks matched.
C13_DeduplicaAntesDeTruncar ==
    Investigado =>
        /\ Len(contexto_items) = TopN
        /\ \A n \in Nodos : Veces(Texto[n], contexto_items) <= 1
        /\ \A k \in 1..Len(contexto_items) :
              LET n == NodoDe(contexto_items[k].contenido)
              IN  /\ contexto_items[k].score = MejorEfectivo(n)
                  /\ \A m \in Coincidentes :
                        Veces(Texto[m], contexto_items) = 0
                        => MejorEfectivo(m) <= contexto_items[k].score
        /\ \A k \in 1..(Len(contexto_items) - 1) :
              contexto_items[k].score >= contexto_items[k + 1].score

\* --------------------------------------------------------------------- C14

GeneracionFallida == salidas.generador \in {"raise", "no_json"}

EstadoDeLaRespuesta ==
    IF TieneCampo(respuesta.body, "status") THEN respuesta.body.o["status"]
    ELSE JNull

\* C14: in /generar-script a response with status 'PENDIENTE' is returned only
\* after an Asset node was created in the request and carries the non-null
\* asset_id of that node; when the generation of the script fails no Neo4j
\* driver is opened and no Asset is created; and no request that created an
\* Asset is answered with status 'FALLO' or with a 500.
C14_AssetYRespuestaDeAcuerdo ==
    peticion.ruta = "/generar-script" =>
        /\ (Enviada /\ EstadoDeLaRespuesta = JStr(<<"PENDIENTE">>))
           => /\ efectos.assets = 1
              /\ asset_id # JNull
              /\ TieneCampo(respuesta.body, "asset_id")
              /\ respuesta.body.o["asset_id"] = asset_id
        /\ GeneracionFallida
           => /\ driver = None
              /\ efectos.neo4j = 0
              /\ efectos.assets = 0
        /\ (Enviada /\ efectos.assets > 0)
           => /\ respuesta.status # 500
              /\ EstadoDeLaRespuesta # JStr(<<"FALLO">>)

\* --------------------------------------------------------------------- C15

CuerpoInvalido ==
    \/ peticion.cuerpo = NoJson
    \/ FaltanDatos(peticion.cuerpo)

\* C15: a request answered with 401 or 400 has had no external effect (no
\* Neo4j driver, no call to the generative model, no Asset, no insert in the
\* conversation log), and the token is checked before the body: a request
\* with a rejectable Authorization header and an invalid body gets 401, and
\* a 400 is sent only to an authenticated request.
C15_RechazoSinEfectos ==
    /\ (Enviada /\ respuesta.status \in {400, 401})
       => /\ efectos = SinEfectos
          /\ driver = None
          /\ asset_id = JNull
          /\ salidas = SinSalidas
    /\ (Enviada /\ CabeceraRechazable(peticion.cabecera) /\ CuerpoInvalido)
       => respuesta.status = 401
    /\ (Enviada /\ respuesta.status = 400) => auth_error = None

\* a request without token and without the required fields got its 401
C15_Testigo ==
    /\ Enviada
    /\ peticion.cabecera = <<>>
    /\ peticion.cuerpo = JObj(<<>>)
    /\ respuesta.status = 401

\* --------------------------------------------------------------------- C16

\* the steps of the handlers that call log_conversation_to_supabase
PasosConLog == {"log", "log_script", "excepcion", "script_code"}

\* the response that the state before the log call determines, whatever the
\* Supabase client and the insert do
RespuestaTrasElLog ==
    CASE pc = "log" -> [status |-> 200, body |-> respuesta_dict]
      [] pc = "log_script" ->
            [status |-> 200,
             body |-> JObj([script |-> script_code, asset_id |-> asset_id,
                            status |-> JStr(<<"PENDIENTE">>),
                            message |-> JStr(<<"Script generado y guardado.">>)])]
      [] pc = "script_code" -> [status |-> 500, body |-> script_dict]
      [] pc = "excepcion" /\ peticion.ruta = "/preguntar" ->
            [status |-> 500, body |-> Answer(ERROR_INTERNO, <<>>, {})]
      [] OTHER ->
            [status |-> 500,
             body |-> JObj([script |-> JStr(<<"# Error fatal en el servidor: ", excepcion>>),
                            asset_id |-> JNull,
                            status |-> JStr(<<"FALLO">>)])]

\* C16: the log of the conversation never changes the answer: a step that
\* calls log_conversation_to_supabase ends the request with the status and
\* body fixed by the state before the call, the same whether the insert
\* succeeds, raises or is not attempted for want of a client; and a request
\* attempts at most one insert.
C16_LogNoCambiaLaRespuesta ==
    [][/\ (pc \in PasosConLog /\ pc' = "fin") => respuesta' = RespuestaTrasElLog
       /\ pc \in {"log", "log_script", "excepcion"} => pc' = "fin"
       /\ efectos'.logs <= 1]_vars

\* a request whose insert raised got its 200
C16_Testigo ==
    /\ Enviada
    /\ efectos.insert = "raise"
    /\ efectos.logs = 1
    /\ respuesta.status = 200

\* --------------------------------------------------------------------- C11

\* C11: the loop does not end because a cycle failed: whenever a telemetry
\* read, the call to the model, the parsing of its JSON or the insert of the
\* report has raised in a cycle, a new cycle begins later on.
C11_ElBucleNoTermina ==
    (maestro.fallo # None) ~> (maestro.pc = "scan")

\* a cycle whose call to the model raised is waiting for its retry
C11_Testigo ==
    /\ maestro.fallo = "llm"
    /\ maestro.pc = "reintento"

\* --------------------------------------------------------------------- C12

\* C12: a cycle of the loop that began while the last user request was
\* within the cooldown window writes nothing to the store.
C12_SinEscriturasEnCooldown ==
    maestro.en_cooldown => maestro.escrituras = 0

====
